---- MODULE Spec2Model ----
(***************************************************************************)
(* Model of the paginated streaming retrieval of the 500px client:        *)
(* Client.ListPhotos, Client.SearchPhotos, Client.CommentsForPhoto, the    *)
(* worker goroutine each of them starts, and the canceler of makeCanceler. *)
(* One stream invocation is modelled: the caller's call, the worker's      *)
(* loop, the consumer receiving from the page channel, and cancel calls.   *)
(* The transport is the environment: the outcome of every fetch is chosen  *)
(* when the fetch returns and is recorded in the fetch log.                *)
(* Two further specifications share the module: the functions that run to  *)
(* completion within one call, and the client's read-write lock with the   *)
(* readers and the writer of its transport field.                          *)
(***************************************************************************)
EXTENDS Integers, Sequences, FiniteSets, TLC

\* ---------------------------------------------------------------- bounds
NegStartPages == 1
MaxStartPage == 2
MaxBound == 2
MaxFetches == 4
MaxCancelCalls == 2
MaxMutations == 1
LimitSpan == 5
TickMs == 50
MaxSets == 2
MaxLockFetches == 2
MaxBodyLen == 3
MaxSigLen == 2

\* ------------------------------------------------------------- inputs
Kinds == {"list", "search", "comments"}
PageNumberInputs == (0 - NegStartPages)..MaxStartPage
MaxPageNumberInputs == 0..MaxBound
LimitInputs == {0, 50, 150}
FeatureInputs == {"", "popular"}
TermInputs == {"", "the universe"}
\* "%zz" is a photo ID that makes the request URL unparseable
PhotoIDInputs == {"", "id1", "%zz"}

NilPhotoRequest ==
  [isNil |-> TRUE, Feature |-> "", PageNumber |-> 0, LimitPerPage |-> 0,
   MaxPageNumber |-> 0]
PhotoRequests ==
  {NilPhotoRequest} \cup
  [isNil : {FALSE}, Feature : FeatureInputs, PageNumber : PageNumberInputs,
   LimitPerPage : LimitInputs, MaxPageNumber : MaxPageNumberInputs]

NilPhotoSearch ==
  [isNil |-> TRUE, Term |-> "", PageNumber |-> 0, LimitPerPage |-> 0,
   MaxPageNumber |-> 0]
PhotoSearches ==
  {NilPhotoSearch} \cup
  [isNil : {FALSE}, Term : TermInputs, PageNumber : PageNumberInputs,
   LimitPerPage : LimitInputs, MaxPageNumber : MaxPageNumberInputs]

NilCommentsRequest ==
  [isNil |-> TRUE, PhotoID |-> "", PageNumber |-> 0, MaxPageNumber |-> 0]
CommentsRequests ==
  {NilCommentsRequest} \cup
  [isNil : {FALSE}, PhotoID : PhotoIDInputs, PageNumber : PageNumberInputs,
   MaxPageNumber : MaxPageNumberInputs]

\* outcomes of one fetch: the transport answers with a page holding items,
\* with a page holding none, fails, or answers with a body that does not decode
FetchResults == {"items", "empty", "transportErr", "decodeErr"}

VARIABLES
  kind,             \* endpoint of the invocation
  call,             \* "idle" before the call, "returned" after it
  oreq,             \* the request object as it was when the call was made
  ret,              \* what the call returned: err, channel, cancel function
  preq,             \* the worker's copy of the request (preq / ps / cpager)
  maxPageNumber,    \* the bound captured by the pageExceeds closure
  photoID,          \* comments worker: photoID local
  pc,               \* position of the worker goroutine
  pp,               \* the page the worker is handing off
  fetched,          \* log of the fetches issued: page, rpp, result
  emitted,          \* pages the consumer has received, in order
  closes,           \* number of times the page channel was closed
  cancelChanClosed, \* cancelChan is closed
  cancelOnce,       \* cancelOnce has run
  cancelCalls,      \* number of calls of cancelFn so far
  panicked,         \* a close of a closed channel happened
  cancelPc,         \* worker position when the token fired
  cancelFetches,    \* fetches issued when the token fired
  cancelEmitted,    \* pages received when the token fired
  callerReq,        \* the caller's request object as it is now
  mutations,        \* number of writes the caller made to it after the call
  firstBody,        \* the first response body decoded into a fresh page
  waited,           \* milliseconds the worker has spent in the current wait
  rwReaders,        \* client lock: the workers holding the read lock
  rwWriter,         \* client lock: the write lock is held
  rt,               \* c.rt: 0 is nil, n > 0 the n-th transport installed
  rtTorn,           \* c.rt is in the middle of being written
  lpc,              \* position of each worker within one fetch
  gotRt,            \* the transport each worker read for its fetch
  lfetches,         \* fetches each worker has made
  setPc,            \* position of the caller of SetHTTPRoundTripper
  sets,             \* calls of SetHTTPRoundTripper so far
  reads,            \* how each read of a client field was made
  writes,           \* how each write of c.rt was made
  clientKey,        \* c._consumerKey; "" while no client has been made
  gotKey,           \* the consumer key each worker read for its fetch
  startSets,        \* SetHTTPRoundTripper calls done when the fetch began
  sent,             \* the requests each worker handed to its transport
  fn,               \* one-shot call made: which function
  fin,              \* one-shot call made: its input
  fout              \* one-shot call made: its result

vars == <<kind, call, oreq, ret, preq, maxPageNumber, photoID, pc, pp,
          fetched, emitted, closes, cancelChanClosed, cancelOnce,
          cancelCalls, panicked, cancelPc, cancelFetches, cancelEmitted,
          callerReq, mutations, firstBody, waited, fn, fin, fout,
          rwReaders, rwWriter, rt, rtTorn, lpc, gotRt, lfetches, setPc, sets,
          reads, writes, clientKey, gotKey, startSets, sent>>

workerVars == <<preq, maxPageNumber, photoID, pc, pp, fetched, emitted, closes,
                firstBody, waited>>
lockVars == <<rwReaders, rwWriter, rt, rtTorn, lpc, gotRt, lfetches, setPc,
              sets, reads, writes, clientKey, gotKey, startSets, sent>>
callerVars == <<callerReq, mutations>>
oneShotVars == <<fn, fin, fout>>
cancelVars == <<cancelChanClosed, cancelOnce, cancelCalls, panicked,
                cancelPc, cancelFetches, cancelEmitted>>

NoPage == [PageNumber |-> 0, Err |-> FALSE, Items |-> "none"]
NoRet == [err |-> "nil", chan |-> FALSE, cancel |-> FALSE]
Workers == {"w1", "w2"}

Init ==
  /\ kind = "none"
  /\ call = "idle"
  /\ oreq = NilPhotoRequest
  /\ ret = NoRet
  /\ preq = NilPhotoRequest
  /\ maxPageNumber = 0
  /\ photoID = ""
  /\ pc = "none"
  /\ pp = NoPage
  /\ fetched = <<>>
  /\ emitted = <<>>
  /\ closes = 0
  /\ cancelChanClosed = FALSE
  /\ cancelOnce = FALSE
  /\ cancelCalls = 0
  /\ panicked = FALSE
  /\ cancelPc = "none"
  /\ cancelFetches = 0
  /\ cancelEmitted = 0
  /\ callerReq = NilPhotoRequest
  /\ mutations = 0
  /\ firstBody = NoPage
  /\ waited = 0
  /\ fn = "none"
  /\ fin = <<>>
  /\ fout = <<>>
  /\ rwReaders = {}
  /\ rwWriter = FALSE
  /\ rt = 0
  /\ rtTorn = FALSE
  /\ lpc = [w \in Workers |-> "idle"]
  /\ gotRt = [w \in Workers |-> 0]
  /\ lfetches = [w \in Workers |-> 0]
  /\ setPc = "idle"
  /\ sets = 0
  /\ reads = {}
  /\ writes = {}
  /\ clientKey = ""
  /\ gotKey = [w \in Workers |-> ""]
  /\ startSets = [w \in Workers |-> 0]
  /\ sent = [w \in Workers |-> <<>>]

\* ------------------------------------------------------- pure functions
PhotoRequestValidate(r) ==
  IF r.isNil THEN "errNilPhotoRequest"
  ELSE IF r.Feature = "" THEN "errEmptyFeature"
  ELSE "nil"

\* Validate without the check of the required filter
CommentsRequestValidate_NoFilterCheck(r) ==
  IF r.isNil THEN "errNilCommentsRequest" ELSE "nil"

CommentsRequestValidate(r) ==
  IF r.isNil THEN "errNilCommentsRequest"
  ELSE IF r.PhotoID = "" THEN "errEmptyPhotoID"
  ELSE "nil"

\* SearchPhotos without the nil check
PhotoSearchCheck_NoNilCheck(r) == "nil"

PhotoSearchCheck(r) ==
  IF r.isNil THEN "errNilPhotoSearch" ELSE "nil"

PhotoRequestAdjustPaginationParams(p) ==
  LET p1 == IF p.PageNumber <= 0 THEN [p EXCEPT !.PageNumber = 1] ELSE p
      p2 == IF p1.LimitPerPage <= 0 THEN [p1 EXCEPT !.LimitPerPage = 20] ELSE p1
  IN IF p2.LimitPerPage >= 100 THEN [p2 EXCEPT !.LimitPerPage = 100] ELSE p2

commentsPagerAdjustPaginationParams(cp) ==
  IF cp.PageNumber <= 0 THEN [cp EXCEPT !.PageNumber = 1] ELSE cp

\* a bound that lets the page equal to it through
pageExceeds_Strict(page) ==
  IF maxPageNumber <= 0 THEN FALSE ELSE page > maxPageNumber

\* a bound read from the caller's object at each test, not captured
pageExceeds_LiveBound(page) ==
  IF callerReq.MaxPageNumber <= 0 THEN FALSE
  ELSE page >= callerReq.MaxPageNumber

pageExceeds(page) ==
  IF maxPageNumber <= 0 THEN FALSE ELSE page >= maxPageNumber

\* ------------------------------------------------------------ the calls
Rejected(e) ==
  /\ ret' = [err |-> e, chan |-> FALSE, cancel |-> FALSE]
  /\ UNCHANGED workerVars

Started(snapshot, bound) ==
  /\ ret' = [err |-> "nil", chan |-> TRUE, cancel |-> TRUE]
  /\ preq' = snapshot
  /\ maxPageNumber' = bound
  /\ pc' = "start"
  /\ UNCHANGED <<photoID, pp, fetched, emitted, closes, firstBody, waited>>

\* a call that normalises the caller's object itself, not a copy of it
ListPhotos_AdjustsInPlace ==
  /\ call = "idle"
  /\ \E r \in PhotoRequests :
       /\ kind' = "list"
       /\ oreq' = r
       /\ call' = "returned"
       /\ IF PhotoRequestValidate(r) # "nil"
            THEN Rejected(PhotoRequestValidate(r)) /\ callerReq' = r
            ELSE LET snap == PhotoRequestAdjustPaginationParams(r)
                 IN Started(snap, snap.MaxPageNumber) /\ callerReq' = snap
  /\ UNCHANGED cancelVars
  /\ UNCHANGED oneShotVars
  /\ UNCHANGED lockVars
  /\ UNCHANGED mutations

ListPhotos ==
  /\ call = "idle"
  /\ \E r \in PhotoRequests :
       /\ kind' = "list"
       /\ oreq' = r
       /\ callerReq' = r
       /\ call' = "returned"
       /\ IF PhotoRequestValidate(r) # "nil"
            THEN Rejected(PhotoRequestValidate(r))
            ELSE LET snap == PhotoRequestAdjustPaginationParams(r)
                 IN Started(snap, snap.MaxPageNumber)
  /\ UNCHANGED cancelVars
  /\ UNCHANGED oneShotVars
  /\ UNCHANGED lockVars
  /\ UNCHANGED mutations

SearchPhotos ==
  /\ call = "idle"
  /\ \E r \in PhotoSearches :
       /\ kind' = "search"
       /\ oreq' = r
       /\ callerReq' = r
       /\ call' = "returned"
       /\ IF PhotoSearchCheck(r) # "nil"
            THEN Rejected(PhotoSearchCheck(r))
            ELSE Started(r, r.MaxPageNumber)
  /\ UNCHANGED cancelVars
  /\ UNCHANGED oneShotVars
  /\ UNCHANGED lockVars
  /\ UNCHANGED mutations

CommentsForPhoto ==
  /\ call = "idle"
  /\ \E r \in CommentsRequests :
       /\ kind' = "comments"
       /\ oreq' = r
       /\ callerReq' = r
       /\ call' = "returned"
       /\ IF CommentsRequestValidate(r) # "nil"
            THEN Rejected(CommentsRequestValidate(r))
            ELSE Started(commentsPagerAdjustPaginationParams(
                           [PageNumber |-> r.PageNumber]),
                         r.MaxPageNumber)
  /\ UNCHANGED cancelVars
  /\ UNCHANGED oneShotVars
  /\ UNCHANGED lockVars
  /\ UNCHANGED mutations

\* ------------------------------------------------------------ the worker
ErrPage == [PageNumber |-> 0, Err |-> TRUE, Items |-> "none"]

\* the value the decoder leaves in the page's PageNumber field: absent from
\* the response (0), the requested page, or some other number
ServerPageNumbers(page) == {0, page, page + 1}

\* go func() of CommentsForPhoto reads creq.PhotoID when it starts running
WorkerStart ==
  /\ pc = "start"
  /\ pc' = "loop"
  /\ photoID' = IF kind = "comments" THEN callerReq.PhotoID ELSE photoID
  /\ UNCHANGED <<kind, call, oreq, ret, preq, maxPageNumber, pp, fetched,
                 emitted, closes>>
  /\ UNCHANGED cancelVars
  /\ UNCHANGED oneShotVars
  /\ UNCHANGED lockVars
  /\ UNCHANGED <<callerReq, mutations, firstBody, waited>>

\* http.NewRequest fails on a URL that does not parse; only the comments
\* URL carries an unescaped caller string (photoID) in its path
BuildFails == kind = "comments" /\ photoID = "%zz"

RequestedLimit == IF kind = "comments" THEN 0 ELSE preq.LimitPerPage

\* a loop that tests the bound at its top, before the fetch
IssueFetch_BoundFirst ==
  /\ pc = "loop"
  /\ Len(fetched) < MaxFetches
  /\ IF maxPageNumber > 0 /\ preq.PageNumber > maxPageNumber
       THEN /\ pc' = "done"
            /\ closes' = closes + 1
            /\ UNCHANGED <<fetched, pp>>
       ELSE /\ fetched' = Append(fetched, [page |-> preq.PageNumber,
                                           rpp |-> RequestedLimit,
                                           result |-> "inflight"])
            /\ pc' = "fetch"
            /\ UNCHANGED <<pp, closes>>
  /\ UNCHANGED <<kind, call, oreq, ret, preq, maxPageNumber, photoID,
                 emitted>>
  /\ UNCHANGED cancelVars
  /\ UNCHANGED oneShotVars
  /\ UNCHANGED lockVars
  /\ UNCHANGED <<callerReq, mutations, firstBody, waited>>

\* a worker that issues the next fetch while one is still in flight
IssueFetch_Pipelined ==
  /\ pc \in {"loop", "fetch"}
  /\ Len(fetched) < MaxFetches
  /\ IF BuildFails
       THEN /\ pp' = ErrPage
            /\ pc' = "sendLast"
            /\ UNCHANGED fetched
       ELSE /\ fetched' = Append(fetched, [page |-> preq.PageNumber,
                                           rpp |-> RequestedLimit,
                                           result |-> "inflight"])
            /\ pc' = "fetch"
            /\ UNCHANGED pp
  /\ UNCHANGED <<kind, call, oreq, ret, preq, maxPageNumber, photoID,
                 emitted, closes>>
  /\ UNCHANGED cancelVars
  /\ UNCHANGED oneShotVars
  /\ UNCHANGED lockVars
  /\ UNCHANGED <<callerReq, mutations, firstBody, waited>>

\* top of the loop up to the call of doAuthAndRequest
IssueFetch ==
  /\ pc = "loop"
  /\ Len(fetched) < MaxFetches
  /\ IF BuildFails
       THEN /\ pp' = ErrPage
            /\ pc' = "sendLast"
            /\ UNCHANGED fetched
       ELSE /\ fetched' = Append(fetched, [page |-> preq.PageNumber,
                                           rpp |-> RequestedLimit,
                                           result |-> "inflight"])
            /\ pc' = "fetch"
            /\ UNCHANGED pp
  /\ UNCHANGED <<kind, call, oreq, ret, preq, maxPageNumber, photoID,
                 emitted, closes>>
  /\ UNCHANGED cancelVars
  /\ UNCHANGED oneShotVars
  /\ UNCHANGED lockVars
  /\ UNCHANGED <<callerReq, mutations, firstBody, waited>>

\* what the worker does with the outcome of a fetch, per endpoint:
\* the next position and the page to hand off
\* the error branch without its return: the error page is handed off like
\* any other page and the loop goes on
ListAfterFetch_ErrContinues(res, sp) ==
  IF res \in {"transportErr", "decodeErr"}
    THEN [pc |-> "send", pp |-> ErrPage]
    ELSE [pc |-> "send",
          pp |-> [PageNumber |-> preq.PageNumber, Err |-> FALSE, Items |-> res]]

ListAfterFetch(res, sp) ==
  IF res \in {"transportErr", "decodeErr"}
    THEN [pc |-> "sendLast", pp |-> ErrPage]
    ELSE [pc |-> "send",
          pp |-> [PageNumber |-> preq.PageNumber, Err |-> FALSE, Items |-> res]]

\* a page with photos handed off as a fresh page, without what was decoded
SearchAfterFetch_FreshPage(res, sp) ==
  IF res \in {"transportErr", "decodeErr"}
    THEN [pc |-> "sendLast", pp |-> ErrPage]
  ELSE IF res = "empty"
    THEN [pc |-> "sendLast",
          pp |-> [PageNumber |-> sp, Err |-> FALSE, Items |-> res]]
    ELSE [pc |-> "send",
          pp |-> [PageNumber |-> preq.PageNumber, Err |-> FALSE,
                  Items |-> "none"]]

SearchAfterFetch(res, sp) ==
  IF res \in {"transportErr", "decodeErr"}
    THEN [pc |-> "sendLast", pp |-> ErrPage]
  ELSE IF res = "empty"
    THEN [pc |-> "sendLast",
          pp |-> [PageNumber |-> sp, Err |-> FALSE, Items |-> res]]
    ELSE [pc |-> "send",
          pp |-> [PageNumber |-> preq.PageNumber, Err |-> FALSE, Items |-> res]]

\* a send that does not wait for the consumer: the worker goes on to the
\* wait and to the next fetch with the page not yet received
CommentsAfterFetch_NoHandOff(res, sp) ==
  IF res \in {"transportErr", "decodeErr"}
    THEN [pc |-> "sendLast", pp |-> ErrPage]
  ELSE IF res = "empty"
    THEN [pc |-> "done", pp |-> pp]
    ELSE [pc |-> "wait",
          pp |-> [PageNumber |-> sp, Err |-> FALSE, Items |-> res]]

\* the empty page handed off before ending, as SearchPhotos does
CommentsAfterFetch_EmitEmpty(res, sp) ==
  IF res \in {"transportErr", "decodeErr"}
    THEN [pc |-> "sendLast", pp |-> ErrPage]
  ELSE IF res = "empty"
    THEN [pc |-> "sendLast",
          pp |-> [PageNumber |-> sp, Err |-> FALSE, Items |-> res]]
    ELSE [pc |-> "send",
          pp |-> [PageNumber |-> sp, Err |-> FALSE, Items |-> res]]

CommentsAfterFetch(res, sp) ==
  IF res \in {"transportErr", "decodeErr"}
    THEN [pc |-> "sendLast", pp |-> ErrPage]
  ELSE IF res = "empty"
    THEN [pc |-> "done", pp |-> pp]
    ELSE [pc |-> "send",
          pp |-> [PageNumber |-> sp, Err |-> FALSE, Items |-> res]]

\* json.Unmarshal of a response body into a fresh page
Decode(res, sp) == [PageNumber |-> sp, Err |-> FALSE, Items |-> res]

AfterFetch(res, sp) ==
  IF kind = "list" THEN ListAfterFetch(res, sp)
  ELSE IF kind = "search" THEN SearchAfterFetch(res, sp)
  ELSE CommentsAfterFetch(res, sp)

\* doAuthAndRequest returns and the body is decoded
FetchReturn ==
  /\ pc = "fetch"
  /\ \E res \in FetchResults, sp \in ServerPageNumbers(preq.PageNumber) :
       LET nxt == AfterFetch(res, sp)
       IN /\ fetched' = [fetched EXCEPT ![Len(fetched)].result = res]
          /\ pc' = nxt.pc
          /\ pp' = nxt.pp
          /\ closes' = IF nxt.pc = "done" THEN closes + 1 ELSE closes
          /\ firstBody' = IF Len(fetched) = 1 /\ res \in {"items", "empty"}
                            THEN Decode(res, sp)
                            ELSE firstBody
  /\ UNCHANGED <<kind, call, oreq, ret, preq, maxPageNumber, photoID, emitted>>
  /\ UNCHANGED cancelVars
  /\ UNCHANGED oneShotVars
  /\ UNCHANGED lockVars
  /\ UNCHANGED callerVars
  /\ UNCHANGED waited

\* the consumer receives from the page channel: the worker's send completes
Receive ==
  /\ pc \in {"send", "sendLast"}
  /\ emitted' = Append(emitted, pp)
  /\ IF pc = "sendLast"
       THEN pc' = "done" /\ closes' = closes + 1
       ELSE pc' = "wait" /\ UNCHANGED closes
  /\ UNCHANGED <<kind, call, oreq, ret, preq, maxPageNumber, photoID, pp,
                 fetched>>
  /\ UNCHANGED cancelVars
  /\ UNCHANGED oneShotVars
  /\ UNCHANGED lockVars
  /\ UNCHANGED <<callerReq, mutations, firstBody>>
  /\ waited' = 0

\* throttle := time.Duration(... * time.Millisecond), per endpoint
ListThrottle == 150
SearchThrottle == 150
CommentsThrottle == 200

\* one interval for every endpoint
throttle_SameForAll == ListThrottle

throttle ==
  IF kind = "comments" THEN CommentsThrottle
  ELSE IF kind = "search" THEN SearchThrottle
  ELSE ListThrottle

\* time passes while the worker is blocked in the select: the timer of
\* time.After has not fired as long as less than throttle has gone by
Tick ==
  /\ pc = "wait"
  /\ waited < throttle
  /\ waited' = waited + TickMs
  /\ UNCHANGED <<kind, call, oreq, ret, preq, maxPageNumber, photoID, pc, pp,
                 fetched, emitted, closes, firstBody>>
  /\ UNCHANGED cancelVars
  /\ UNCHANGED callerVars
  /\ UNCHANGED oneShotVars
  /\ UNCHANGED lockVars

\* select { case <-cancelChan: ... case <-time.After(throttle): }
\* the timer is created by the select itself, so a token that has fired is
\* the only ready case; otherwise whichever event comes first wakes the worker
\* a wait that only sleeps and never looks at the token
SelectCase_IgnoreCancel == "timer"

SelectCase == IF cancelChanClosed THEN "cancel" ELSE "timer"

\* the return on cancellation without the close of the page channel
WaitCancelled_NoClose ==
  /\ pc = "wait"
  /\ SelectCase = "cancel"
  /\ pc' = "done"
  /\ UNCHANGED <<kind, call, oreq, ret, preq, maxPageNumber, photoID, pp,
                 fetched, emitted, closes>>
  /\ UNCHANGED cancelVars
  /\ UNCHANGED oneShotVars
  /\ UNCHANGED lockVars
  /\ UNCHANGED <<callerReq, mutations, firstBody>>
  /\ waited' = 0

\* a cancellation reported to the consumer as a last error page
WaitCancelled_SendsErrPage ==
  /\ pc = "wait"
  /\ SelectCase = "cancel"
  /\ pc' = "sendLast"
  /\ pp' = ErrPage
  /\ UNCHANGED <<kind, call, oreq, ret, preq, maxPageNumber, photoID,
                 fetched, emitted, closes>>
  /\ UNCHANGED cancelVars
  /\ UNCHANGED oneShotVars
  /\ UNCHANGED lockVars
  /\ UNCHANGED <<callerReq, mutations, firstBody>>
  /\ waited' = 0

WaitCancelled ==
  /\ pc = "wait"
  /\ SelectCase = "cancel"
  /\ pc' = "done"
  /\ closes' = closes + 1
  /\ UNCHANGED <<kind, call, oreq, ret, preq, maxPageNumber, photoID, pp,
                 fetched, emitted>>
  /\ UNCHANGED cancelVars
  /\ UNCHANGED oneShotVars
  /\ UNCHANGED lockVars
  /\ UNCHANGED <<callerReq, mutations, firstBody>>
  /\ waited' = 0

\* a loop that does not advance the page number
ThrottleElapsed_NoAdvance ==
  /\ pc = "wait"
  /\ SelectCase = "timer"
  /\ waited >= throttle
  /\ IF pageExceeds(preq.PageNumber)
       THEN pc' = "done" /\ closes' = closes + 1
       ELSE pc' = "loop" /\ UNCHANGED closes
  /\ UNCHANGED <<kind, call, oreq, ret, preq, maxPageNumber, photoID, pp,
                 fetched, emitted>>
  /\ UNCHANGED cancelVars
  /\ UNCHANGED oneShotVars
  /\ UNCHANGED lockVars
  /\ UNCHANGED <<callerReq, mutations, firstBody>>
  /\ waited' = 0

\* the timer of time.After fires: the loop goes on after the select
ThrottleElapsed ==
  /\ pc = "wait"
  /\ SelectCase = "timer"
  /\ waited >= throttle
  /\ IF pageExceeds(preq.PageNumber)
       THEN pc' = "done" /\ closes' = closes + 1 /\ UNCHANGED preq
       ELSE /\ pc' = "loop"
            /\ preq' = [preq EXCEPT !.PageNumber = preq.PageNumber + 1]
            /\ UNCHANGED closes
  /\ UNCHANGED <<kind, call, oreq, ret, maxPageNumber, photoID, pp,
                 fetched, emitted>>
  /\ UNCHANGED cancelVars
  /\ UNCHANGED oneShotVars
  /\ UNCHANGED lockVars
  /\ UNCHANGED <<callerReq, mutations, firstBody>>
  /\ waited' = 0

\* ---------------------------------------------------------- the canceler
\* close(cancelChan): closing a closed channel panics
CloseCancelChan ==
  IF cancelChanClosed
    THEN /\ panicked' = TRUE
         /\ UNCHANGED <<cancelChanClosed, cancelPc, cancelFetches, cancelEmitted>>
    ELSE /\ cancelChanClosed' = TRUE
         /\ cancelPc' = pc
         /\ cancelFetches' = Len(fetched)
         /\ cancelEmitted' = Len(emitted)
         /\ UNCHANGED panicked

\* a cancel function that closes the channel on every call, without the Once
cancelFn_NoOnce ==
  /\ ret.cancel
  /\ cancelCalls < MaxCancelCalls
  /\ cancelCalls' = cancelCalls + 1
  /\ cancelOnce' = TRUE
  /\ CloseCancelChan
  /\ UNCHANGED <<kind, call, oreq, ret>>
  /\ UNCHANGED workerVars
  /\ UNCHANGED callerVars
  /\ UNCHANGED oneShotVars
  /\ UNCHANGED lockVars

\* one call of the cancel function returned by makeCanceler
cancelFn ==
  /\ ret.cancel
  /\ cancelCalls < MaxCancelCalls
  /\ cancelCalls' = cancelCalls + 1
  /\ IF cancelOnce
       THEN UNCHANGED <<cancelChanClosed, cancelOnce, panicked, cancelPc,
                        cancelFetches, cancelEmitted>>
       ELSE cancelOnce' = TRUE /\ CloseCancelChan
  /\ UNCHANGED <<kind, call, oreq, ret>>
  /\ UNCHANGED workerVars
  /\ UNCHANGED callerVars
  /\ UNCHANGED oneShotVars
  /\ UNCHANGED lockVars

\* ------------------------------------------------------------ the caller
\* the values a caller's write can leave in its request object: one field of
\* PageNumber, LimitPerPage, MaxPageNumber, PhotoID gets a value it did not have
MutatedRequests(r) ==
  {[r EXCEPT !.PageNumber = r.PageNumber + 1],
   [r EXCEPT !.MaxPageNumber = r.MaxPageNumber + 1]}
  \cup (IF kind = "comments"
          THEN {[r EXCEPT !.PhotoID = "id2"]}
          ELSE {[r EXCEPT !.LimitPerPage = r.LimitPerPage + 7]})

\* after the call has returned a stream, the caller writes to the request
\* object it passed in
MutateRequest ==
  /\ call = "returned"
  /\ ret.err = "nil"
  /\ mutations < MaxMutations
  /\ mutations' = mutations + 1
  /\ \E r \in MutatedRequests(callerReq) : callerReq' = r
  /\ UNCHANGED <<kind, call, oreq, ret>>
  /\ UNCHANGED workerVars
  /\ UNCHANGED cancelVars
  /\ UNCHANGED oneShotVars
  /\ UNCHANGED lockVars

Next ==
  \/ ListPhotos
  \/ SearchPhotos
  \/ CommentsForPhoto
  \/ WorkerStart
  \/ IssueFetch
  \/ FetchReturn
  \/ Receive
  \/ WaitCancelled
  \/ Tick
  \/ ThrottleElapsed
  \/ cancelFn
  \/ MutateRequest

Spec == Init /\ [][Next]_vars

\* The stream with a scheduler that runs the worker goroutine whenever it can
\* take a step, a transport whose every round trip returns, time that passes,
\* and a consumer that receives whenever a page is offered.  The caller's
\* steps (the calls, cancel, writes to the request) are under no obligation.
SpecLive ==
  /\ Init
  /\ [][Next]_vars
  /\ WF_vars(WorkerStart)
  /\ WF_vars(IssueFetch)
  /\ WF_vars(FetchReturn)
  /\ WF_vars(Receive)
  /\ WF_vars(WaitCancelled)
  /\ WF_vars(Tick)
  /\ WF_vars(ThrottleElapsed)

\* ------------------------------------------------------ one-shot calls
\* Functions that run to completion within one call, applied to inputs drawn
\* from bounded sets: the input and the result are recorded in fin and fout.
streamVars == <<kind, call, oreq, ret, preq, maxPageNumber, photoID, pc, pp,
                fetched, emitted, closes, cancelChanClosed, cancelOnce,
                cancelCalls, panicked, cancelPc, cancelFetches, cancelEmitted,
                callerReq, mutations, firstBody, waited>>

AdjustLimitInputs == (0 - LimitSpan)..(100 + LimitSpan)

AdjustPhotoRequests ==
  [isNil : {FALSE}, Feature : {"popular"}, PageNumber : PageNumberInputs,
   LimitPerPage : AdjustLimitInputs, MaxPageNumber : MaxPageNumberInputs]

AdjustPhotoSearches ==
  [isNil : {FALSE}, Term : {"the universe"}, PageNumber : PageNumberInputs,
   LimitPerPage : AdjustLimitInputs, MaxPageNumber : MaxPageNumberInputs]

\* adjustPaginationParams without the default for an unset LimitPerPage
PhotoSearchAdjustPaginationParams_NoDefault(ps) ==
  LET p1 == IF ps.PageNumber <= 0 THEN [ps EXCEPT !.PageNumber = 1] ELSE ps
  IN IF p1.LimitPerPage >= 100 THEN [p1 EXCEPT !.LimitPerPage = 100] ELSE p1

PhotoSearchAdjustPaginationParams(ps) ==
  LET p1 == IF ps.PageNumber <= 0 THEN [ps EXCEPT !.PageNumber = 1] ELSE ps
      p2 == IF p1.LimitPerPage <= 0 THEN [p1 EXCEPT !.LimitPerPage = 20] ELSE p1
  IN IF p2.LimitPerPage >= 100 THEN [p2 EXCEPT !.LimitPerPage = 100] ELSE p2

AdjustPhotoRequest ==
  /\ fn = "none"
  /\ \E p \in AdjustPhotoRequests :
       /\ fn' = "PhotoRequest.adjustPaginationParams"
       /\ fin' = p
       /\ fout' = PhotoRequestAdjustPaginationParams(p)
  /\ UNCHANGED streamVars
  /\ UNCHANGED lockVars

AdjustPhotoSearch ==
  /\ fn = "none"
  /\ \E p \in AdjustPhotoSearches :
       /\ fn' = "PhotoSearch.adjustPaginationParams"
       /\ fin' = p
       /\ fout' = PhotoSearchAdjustPaginationParams(p)
  /\ UNCHANGED streamVars
  /\ UNCHANGED lockVars

\* what the round trip of one request produces: an error of the round trip,
\* or a response with a status, a body that may be absent, the bytes that
\* reading the body yields, and whether that read ends in an error
StatusCodes == {199, 200, 204, 299, 300, 401, 404, 500}

Responses ==
  [rtErr : BOOLEAN, StatusCode : StatusCodes, bodyNil : BOOLEAN,
   body : {"", "Unauthorized consumer_key"}, readErr : BOOLEAN]

\* otils.StatusOK
StatusOK(code) == code >= 200 /\ code <= 299

NoError == [isNil |-> TRUE, msg |-> ""]
ErrorOf(m) == [isNil |-> FALSE, msg |-> m]

\* the bytes ioutil.ReadAll yields; http.Client.Do hands out an absent body
\* as an empty one
BodyRead(res) == IF res.bodyNil THEN "" ELSE res.body

\* a non-success status that keeps the bytes read and reports the status line
doAuthAndRequest_KeepsBody(res) ==
  IF res.rtErr
    THEN [bytesNil |-> TRUE, bytes |-> "", err |-> ErrorOf("round trip")]
  ELSE IF ~StatusOK(res.StatusCode)
    THEN [bytesNil |-> FALSE, bytes |-> BodyRead(res),
          err |-> ErrorOf("status line")]
  ELSE [bytesNil |-> FALSE, bytes |-> BodyRead(res),
        err |-> IF ~res.bodyNil /\ res.readErr
                  THEN ErrorOf("read") ELSE NoError]

doAuthAndRequest(res) ==
  IF res.rtErr
    THEN [bytesNil |-> TRUE, bytes |-> "", err |-> ErrorOf("round trip")]
  ELSE IF ~StatusOK(res.StatusCode)
    THEN LET errMsg == IF ~res.bodyNil /\ BodyRead(res) # ""
                         THEN BodyRead(res)
                         ELSE "status line"
         IN [bytesNil |-> TRUE, bytes |-> "", err |-> ErrorOf(errMsg)]
  ELSE [bytesNil |-> FALSE, bytes |-> BodyRead(res),
        err |-> IF ~res.bodyNil /\ res.readErr
                  THEN ErrorOf("read") ELSE NoError]

DoAuthAndRequest ==
  /\ fn = "none"
  /\ \E res \in Responses :
       /\ fn' = "doAuthAndRequest"
       /\ fin' = res
       /\ fout' = doAuthAndRequest(res)
  /\ UNCHANGED streamVars
  /\ UNCHANGED lockVars

\* what the bytes of a photo response decode to when there are any; no bytes
\* at all do not decode
PhotoBodies == {"photo", "null", "malformed"}

\* PhotoByID without the test of the photo ID
PhotoByID_NoIDCheck(id, res, body) ==
  LET r == doAuthAndRequest(res)
  IN IF ~r.err.isNil
       THEN [photo |-> "nil", err |-> r.err, requests |-> 1]
     ELSE IF body = "malformed" \/ r.bytes = ""
       THEN [photo |-> "nil", err |-> ErrorOf("decode"), requests |-> 1]
     ELSE [photo |-> IF body = "photo" THEN "photo" ELSE "nil",
           err |-> NoError, requests |-> 1]

PhotoByID(id, res, body) ==
  IF id = ""
    THEN [photo |-> "nil", err |-> ErrorOf("errEmptyPhotoID"), requests |-> 0]
  ELSE IF id = "%zz"
    THEN [photo |-> "nil", err |-> ErrorOf("invalid URL"), requests |-> 0]
  ELSE LET r == doAuthAndRequest(res)
       IN IF ~r.err.isNil
            THEN [photo |-> "nil", err |-> r.err, requests |-> 1]
          ELSE IF body = "malformed" \/ r.bytes = ""
            THEN [photo |-> "nil", err |-> ErrorOf("decode"), requests |-> 1]
          ELSE [photo |-> IF body = "photo" THEN "photo" ELSE "nil",
                err |-> NoError, requests |-> 1]

CallPhotoByID ==
  /\ fn = "none"
  /\ \E id \in PhotoIDInputs, res \in Responses, body \in PhotoBodies :
       /\ fn' = "PhotoByID"
       /\ fin' = [photoID |-> id, res |-> res, body |-> body]
       /\ fout' = PhotoByID(id, res, body)
  /\ UNCHANGED streamVars
  /\ UNCHANGED lockVars

\* an upload request: a nil pointer, or a request whose Body and PhotoInfo
\* may each be nil
UploadRequests ==
  {[isNil |-> TRUE, bodyNil |-> TRUE, infoNil |-> TRUE]}
  \cup [isNil : {FALSE}, bodyNil : BOOLEAN, infoNil : BOOLEAN]

\* Validate without the test of PhotoInfo
UploadRequestValidate_NoPhotoCheck(ureq) ==
  IF ureq.isNil \/ ureq.bodyNil THEN "errNilBody" ELSE "nil"

UploadRequestValidate(ureq) ==
  IF ureq.isNil \/ ureq.bodyNil THEN "errNilBody"
  ELSE IF ureq.infoNil THEN "errNilPhoto"
  ELSE "nil"

\* UploadPhoto: qvOk is whether otils.ToURLValues succeeds on the photo
\* information; writerStarted is whether the goroutine that writes the
\* multipart body was started, requests the number of round trips made
UploadPhoto(ureq, qvOk, res, body) ==
  IF UploadRequestValidate(ureq) # "nil"
    THEN [photo |-> "nil", err |-> ErrorOf(UploadRequestValidate(ureq)),
          writerStarted |-> FALSE, requests |-> 0]
  ELSE IF ~qvOk
    THEN [photo |-> "nil", err |-> ErrorOf("url values"),
          writerStarted |-> FALSE, requests |-> 0]
  ELSE LET r == doAuthAndRequest(res)
       IN IF ~r.err.isNil
            THEN [photo |-> "nil", err |-> r.err,
                  writerStarted |-> TRUE, requests |-> 1]
          ELSE IF body = "malformed" \/ r.bytes = ""
            THEN [photo |-> "nil", err |-> ErrorOf("decode"),
                  writerStarted |-> TRUE, requests |-> 1]
          ELSE [photo |-> IF body = "photo" THEN "photo" ELSE "nil",
                err |-> NoError, writerStarted |-> TRUE, requests |-> 1]

CallUploadPhoto ==
  /\ fn = "none"
  /\ \E ureq \in UploadRequests, qvOk \in BOOLEAN, res \in Responses,
        body \in PhotoBodies :
       /\ fn' = "UploadPhoto"
       /\ fin' = [ureq |-> ureq, qvOk |-> qvOk, res |-> res, body |-> body]
       /\ fout' = UploadPhoto(ureq, qvOk, res, body)
  /\ UNCHANGED streamVars
  /\ UNCHANGED lockVars

\* ------------------------------------------------ the upload body
\* io.Reader given as the Body of an upload: whether it is an io.Seeker, its
\* length and read position in bytes, the content type its first sigLen
\* bytes identify ("" when they identify none)
Min(a, b) == IF a <= b THEN a ELSE b

\* sniffBuf := make([]byte, 512)
SniffLen == 512

BodyLens == 0..MaxBodyLen \cup {SniffLen + 1}

Readers ==
  {r \in [isNil : {FALSE}, seekable : BOOLEAN, len : BodyLens, pos : BodyLens,
          type : {"", "image/jpeg"}, sigLen : 1..MaxSigLen] :
     r.pos <= r.len}

NilReader ==
  [isNil |-> TRUE, seekable |-> FALSE, len |-> 0, pos |-> 0, type |-> "",
   sigLen |-> 1]

\* the byte counts io.ReadAtLeast(r, sniffBuf, 1) can return: at least one
\* byte and at most what the buffer holds and the reader has left; 0 at the
\* end of the reader
ReadCounts(r) ==
  IF r.pos >= r.len THEN {0} ELSE 1..Min(SniffLen, r.len - r.pos)

\* http.DetectContentType of the n bytes read at the reader's position: the
\* signature of a type is at the start of the content
DetectContentType(r, n) ==
  IF r.type # "" /\ r.pos = 0 /\ n >= r.sigLen
    THEN r.type
    ELSE "application/octet-stream"

\* fDetectContentType with n the number of bytes the read returned; pos is
\* the reader's position afterwards
fDetectContentType(r, n) ==
  IF r.isNil
    THEN [ct |-> "", err |-> "errNilBody", seekable |-> FALSE, pos |-> r.pos]
  ELSE IF ~r.seekable
    THEN [ct |-> "", err |-> "nil", seekable |-> FALSE, pos |-> r.pos]
  ELSE IF n = 0
    THEN [ct |-> "", err |-> "EOF", seekable |-> TRUE, pos |-> r.pos]
  ELSE [ct |-> DetectContentType(r, n), err |-> "nil", seekable |-> TRUE,
        pos |-> n]

CallFDetectContentType ==
  /\ fn = "none"
  /\ \E r \in Readers \cup {NilReader} : \E n \in ReadCounts(r) :
       /\ fn' = "fDetectContentType"
       /\ fin' = [r |-> r, n |-> n]
       /\ fout' = fDetectContentType(r, n)
  /\ UNCHANGED streamVars
  /\ UNCHANGED lockVars

ContentTypeInputs == {"", "  ", "image/png"}

\* strings.TrimSpace on the inputs above
TrimSpace(str) == IF str = "  " THEN "" ELSE str

\* the goroutine of UploadPhoto: the body is copied into the file part up to
\* its end, then the Content-Type field is written when its value is not
\* blank; ContentTypeField is "" when no field was written
UploadWriter(r, ContentType) ==
  LET copied == [r EXCEPT !.pos = r.len]
      contentType == TrimSpace(ContentType)
      sniffed == fDetectContentType(copied, 0)
      value == IF contentType = "" THEN sniffed.ct ELSE contentType
  IN [fileBytes |-> r.len - r.pos, ContentTypeField |-> value,
      pos |-> sniffed.pos]

CallUploadWriter ==
  /\ fn = "none"
  /\ \E r \in Readers, ct \in ContentTypeInputs :
       /\ fn' = "UploadPhoto.writer"
       /\ fin' = [Body |-> r, ContentType |-> ct]
       /\ fout' = UploadWriter(r, ct)
  /\ UNCHANGED streamVars
  /\ UNCHANGED lockVars

\* ------------------------------------------------ the category tables
\* a table in which two categories have the same code
categoryToIntMap_SharedCode ==
  "Uncategorized" :> 0
  @@ "Abstract" :> 10
  @@ "Animals" :> 11
  @@ "Black and white" :> 5
  @@ "Celebrities" :> 1
  @@ "City and Architecture" :> 9
  @@ "Commercial" :> 15
  @@ "Concert" :> 16
  @@ "Family" :> 20
  @@ "Fashion" :> 14
  @@ "Film" :> 2
  @@ "Fine Art" :> 24
  @@ "Food" :> 23
  @@ "Journalism" :> 3
  @@ "Landscapes" :> 8
  @@ "Macro" :> 12
  @@ "Nature" :> 18
  @@ "Nude" :> 4
  @@ "People" :> 7
  @@ "Performing Arts" :> 19
  @@ "Sport" :> 17
  @@ "Still Life" :> 6
  @@ "Street" :> 21
  @@ "Transportation" :> 26
  @@ "Travel" :> 13
  @@ "Underwater" :> 22
  @@ "Urban Exploration" :> 27
  @@ "Wedding" :> 24

categoryToIntMap ==
  "Uncategorized" :> 0
  @@ "Abstract" :> 10
  @@ "Animals" :> 11
  @@ "Black and white" :> 5
  @@ "Celebrities" :> 1
  @@ "City and Architecture" :> 9
  @@ "Commercial" :> 15
  @@ "Concert" :> 16
  @@ "Family" :> 20
  @@ "Fashion" :> 14
  @@ "Film" :> 2
  @@ "Fine Art" :> 24
  @@ "Food" :> 23
  @@ "Journalism" :> 3
  @@ "Landscapes" :> 8
  @@ "Macro" :> 12
  @@ "Nature" :> 18
  @@ "Nude" :> 4
  @@ "People" :> 7
  @@ "Performing Arts" :> 19
  @@ "Sport" :> 17
  @@ "Still Life" :> 6
  @@ "Street" :> 21
  @@ "Transportation" :> 26
  @@ "Travel" :> 13
  @@ "Underwater" :> 22
  @@ "Urban Exploration" :> 27
  @@ "Wedding" :> 25

\* init(): for category, i := range categoryToIntMap
\*           { intToCategoryMap[i] = category }
\* the values the loop can leave at key i: when two categories have one
\* code, the one the iteration visits last stays, which is either of them
intToCategoryMap(i) ==
  {c \in DOMAIN categoryToIntMap : categoryToIntMap[c] = i}

\* the values intToCategory(i) can return; a map read at a key it does not
\* hold gives the zero value
intToCategory(i) ==
  IF intToCategoryMap(i) = {} THEN {""} ELSE intToCategoryMap(i)

categoryToInt(cat) ==
  IF cat \in DOMAIN categoryToIntMap THEN categoryToIntMap[cat] ELSE 0

CategoryInputs == DOMAIN categoryToIntMap \cup {"", "Selfies"}
CodeInputs == (0 - 1)..(Cardinality(DOMAIN categoryToIntMap) + 1)

CallCategoryToInt ==
  /\ fn = "none"
  /\ \E c \in CategoryInputs : \E back \in intToCategory(categoryToInt(c)) :
       /\ fn' = "categoryToInt"
       /\ fin' = c
       /\ fout' = [code |-> categoryToInt(c), back |-> back]
  /\ UNCHANGED streamVars
  /\ UNCHANGED lockVars

CallIntToCategory ==
  /\ fn = "none"
  /\ \E i \in CodeInputs : \E cat \in intToCategory(i) :
       /\ fn' = "intToCategory"
       /\ fin' = i
       /\ fout' = [cat |-> cat, back |-> categoryToInt(cat)]
  /\ UNCHANGED streamVars
  /\ UNCHANGED lockVars

NextOneShot ==
  \/ AdjustPhotoRequest
  \/ AdjustPhotoSearch
  \/ DoAuthAndRequest
  \/ CallPhotoByID
  \/ CallUploadPhoto
  \/ CallFDetectContentType
  \/ CallUploadWriter
  \/ CallCategoryToInt
  \/ CallIntToCategory

SpecOneShot == Init /\ [][NextOneShot]_vars

\* ------------------------------------------------- the client's lock
\* The Client embeds a sync.RWMutex.  Every fetch of a stream reads the
\* consumer key through consumerKey() and the transport through httpClient();
\* SetHTTPRoundTripper writes the transport.  Two workers, each the worker of
\* its own stream, fetch while a caller installs transports.  Every read and
\* every write is recorded with the lock state it was made in.

\* RWMutex.RLock taken without waiting for the writer and without being
\* counted as a reader
RLock_NoLock(w) ==
  /\ UNCHANGED rwReaders

\* RWMutex.RLock: blocks while the write lock is held
RLock(w) ==
  /\ ~rwWriter
  /\ rwReaders' = rwReaders \cup {w}

RUnlock(w) == rwReaders' = rwReaders \ {w}

\* RWMutex.Lock: blocks while any lock is held
Lock ==
  /\ ~rwWriter
  /\ rwReaders = {}
  /\ rwWriter' = TRUE

Unlock == rwWriter' = FALSE

\* the record of one read of a client field by worker w
ReadOf(field, w) ==
  [field |-> field, rlocked |-> w \in rwReaders, writerInside |-> rwWriter,
   torn |-> field = "rt" /\ rtTorn]

\* the workers that are between the lock and the unlock of a read
ReadersInside == {w \in Workers : lpc[w] \in {"key.rlocked", "key.read",
                                               "rt.rlocked", "rt.read"}}

\* a worker moves from one position to the next
Goto(w, from, to) ==
  /\ lpc[w] = from
  /\ lpc' = [lpc EXCEPT ![w] = to]

\* the keys a client can be made with
ConsumerKeys == {"consumer-key-1", "consumer-key-2"}

\* NewClient: a client is made with a non-empty consumer key
NewClient ==
  /\ clientKey = ""
  /\ \E k \in ConsumerKeys : clientKey' = k
  /\ UNCHANGED <<rwReaders, rwWriter, rt, rtTorn, lpc, gotRt, lfetches, setPc,
                 sets, reads, writes, gotKey, startSets, sent>>
  /\ UNCHANGED streamVars
  /\ UNCHANGED oneShotVars

\* consumerKey(): c.RLock()
consumerKeyRLock(w) ==
  /\ clientKey # ""
  /\ lfetches[w] < MaxLockFetches
  /\ Goto(w, "idle", "key.rlocked")
  /\ RLock(w)
  /\ UNCHANGED <<rwWriter, rt, rtTorn, gotRt, lfetches, setPc, sets, reads,
                 writes>>
  /\ UNCHANGED streamVars
  /\ UNCHANGED oneShotVars
  /\ startSets' = [startSets EXCEPT ![w] = sets]
  /\ UNCHANGED <<clientKey, gotKey, sent>>

\* the key set in the query of the first fetch only
consumerKeyRead_FirstOnly(w) ==
  /\ Goto(w, "key.rlocked", "key.read")
  /\ reads' = reads \cup {ReadOf("_consumerKey", w)}
  /\ UNCHANGED <<rwReaders, rwWriter, rt, rtTorn, gotRt, lfetches, setPc,
                 sets, writes>>
  /\ UNCHANGED streamVars
  /\ UNCHANGED oneShotVars
  /\ gotKey' = IF lfetches[w] = 0 THEN [gotKey EXCEPT ![w] = clientKey]
                ELSE gotKey
  /\ UNCHANGED <<clientKey, startSets, sent>>

\* consumerKey(): return c._consumerKey
consumerKeyRead(w) ==
  /\ Goto(w, "key.rlocked", "key.read")
  /\ reads' = reads \cup {ReadOf("_consumerKey", w)}
  /\ UNCHANGED <<rwReaders, rwWriter, rt, rtTorn, gotRt, lfetches, setPc,
                 sets, writes>>
  /\ UNCHANGED streamVars
  /\ UNCHANGED oneShotVars
  /\ gotKey' = [gotKey EXCEPT ![w] = clientKey]
  /\ UNCHANGED <<clientKey, startSets, sent>>

\* consumerKey(): the deferred c.RUnlock()
consumerKeyRUnlock(w) ==
  /\ Goto(w, "key.read", "built")
  /\ RUnlock(w)
  /\ UNCHANGED <<rwWriter, rt, rtTorn, gotRt, lfetches, setPc, sets, reads,
                 writes>>
  /\ UNCHANGED streamVars
  /\ UNCHANGED oneShotVars
  /\ UNCHANGED <<clientKey, gotKey, startSets, sent>>

\* httpClient(): c.RLock()
httpClientRLock(w) ==
  /\ Goto(w, "built", "rt.rlocked")
  /\ RLock(w)
  /\ UNCHANGED <<rwWriter, rt, rtTorn, gotRt, lfetches, setPc, sets, reads,
                 writes>>
  /\ UNCHANGED streamVars
  /\ UNCHANGED oneShotVars
  /\ UNCHANGED <<clientKey, gotKey, startSets, sent>>

\* a transport read for the first fetch and kept for the later ones
httpClientRead_Snapshot(w) ==
  /\ Goto(w, "rt.rlocked", "rt.read")
  /\ reads' = reads \cup {ReadOf("rt", w)}
  /\ gotRt' = IF lfetches[w] > 0 THEN gotRt
               ELSE [gotRt EXCEPT ![w] = IF rtTorn THEN 0 - 1 ELSE rt]
  /\ UNCHANGED <<rwReaders, rwWriter, rt, rtTorn, lfetches, setPc, sets,
                 writes>>
  /\ UNCHANGED streamVars
  /\ UNCHANGED oneShotVars
  /\ UNCHANGED <<clientKey, gotKey, startSets, sent>>

\* httpClient(): rt := c.rt; a field that is being written reads as
\* neither the old nor the new value
httpClientRead(w) ==
  /\ Goto(w, "rt.rlocked", "rt.read")
  /\ reads' = reads \cup {ReadOf("rt", w)}
  /\ gotRt' = [gotRt EXCEPT ![w] = IF rtTorn THEN 0 - 1 ELSE rt]
  /\ UNCHANGED <<rwReaders, rwWriter, rt, rtTorn, lfetches, setPc, sets,
                 writes>>
  /\ UNCHANGED streamVars
  /\ UNCHANGED oneShotVars
  /\ UNCHANGED <<clientKey, gotKey, startSets, sent>>

\* httpClient(): c.RUnlock()
httpClientRUnlock(w) ==
  /\ Goto(w, "rt.read", "do")
  /\ RUnlock(w)
  /\ UNCHANGED <<rwWriter, rt, rtTorn, gotRt, lfetches, setPc, sets, reads,
                 writes>>
  /\ UNCHANGED streamVars
  /\ UNCHANGED oneShotVars
  /\ UNCHANGED <<clientKey, gotKey, startSets, sent>>

\* the calls of SetHTTPRoundTripper made so far, the running one included
SetsBegun == IF setPc = "idle" THEN sets ELSE sets + 1

\* doAuthAndRequest: c.httpClient().Do(req) with the transport read; the
\* query of the request carries the key read for this fetch
Do(w) ==
  /\ Goto(w, "do", "idle")
  /\ lfetches' = [lfetches EXCEPT ![w] = lfetches[w] + 1]
  /\ UNCHANGED <<rwReaders, rwWriter, rt, rtTorn, gotRt, setPc, sets, reads,
                 writes>>
  /\ UNCHANGED streamVars
  /\ UNCHANGED oneShotVars
  /\ sent' = [sent EXCEPT ![w] = Append(sent[w],
                [consumer_key |-> gotKey[w], rt |-> gotRt[w],
                 setsDone |-> startSets[w], setsBegun |-> SetsBegun])]
  /\ gotKey' = [gotKey EXCEPT ![w] = ""]
  /\ UNCHANGED <<clientKey, startSets>>

\* SetHTTPRoundTripper: c.Lock()
SetHTTPRoundTripperLock ==
  /\ clientKey # ""
  /\ setPc = "idle"
  /\ sets < MaxSets
  /\ setPc' = "locked"
  /\ Lock
  /\ UNCHANGED <<rwReaders, rt, rtTorn, lpc, gotRt, lfetches, sets, reads,
                 writes>>
  /\ UNCHANGED streamVars
  /\ UNCHANGED oneShotVars
  /\ UNCHANGED <<clientKey, gotKey, startSets, sent>>

\* SetHTTPRoundTripper: c.rt = rt, the store of an interface value begins
SetHTTPRoundTripperWrite ==
  /\ setPc = "locked"
  /\ setPc' = "writing"
  /\ rtTorn' = TRUE
  /\ writes' = writes \cup {[wlocked |-> rwWriter,
                              readersInside |-> ReadersInside # {}]}
  /\ UNCHANGED <<rwReaders, rwWriter, rt, lpc, gotRt, lfetches, sets, reads>>
  /\ UNCHANGED streamVars
  /\ UNCHANGED oneShotVars
  /\ UNCHANGED <<clientKey, gotKey, startSets, sent>>

\* SetHTTPRoundTripper: the store is complete
SetHTTPRoundTripperWritten ==
  /\ setPc = "writing"
  /\ setPc' = "written"
  /\ rt' = sets + 1
  /\ rtTorn' = FALSE
  /\ UNCHANGED <<rwReaders, rwWriter, lpc, gotRt, lfetches, sets, reads,
                 writes>>
  /\ UNCHANGED streamVars
  /\ UNCHANGED oneShotVars
  /\ UNCHANGED <<clientKey, gotKey, startSets, sent>>

\* SetHTTPRoundTripper: the deferred c.Unlock()
SetHTTPRoundTripperUnlock ==
  /\ setPc = "written"
  /\ setPc' = "idle"
  /\ sets' = sets + 1
  /\ Unlock
  /\ UNCHANGED <<rwReaders, rt, rtTorn, lpc, gotRt, lfetches, reads, writes>>
  /\ UNCHANGED streamVars
  /\ UNCHANGED oneShotVars
  /\ UNCHANGED <<clientKey, gotKey, startSets, sent>>

NextLock ==
  \/ NewClient
  \/ \E w \in Workers : consumerKeyRLock(w)
  \/ \E w \in Workers : consumerKeyRead(w)
  \/ \E w \in Workers : consumerKeyRUnlock(w)
  \/ \E w \in Workers : httpClientRLock(w)
  \/ \E w \in Workers : httpClientRead(w)
  \/ \E w \in Workers : httpClientRUnlock(w)
  \/ \E w \in Workers : Do(w)
  \/ SetHTTPRoundTripperLock
  \/ SetHTTPRoundTripperWrite
  \/ SetHTTPRoundTripperWritten
  \/ SetHTTPRoundTripperUnlock

SpecLock == Init /\ [][NextLock]_vars

\* ------------------------------------------------- notions used by claims
ErrResults == {"transportErr", "decodeErr"}

Rejection ==
  /\ ret.err # "nil"
  /\ ~ret.chan
  /\ ~ret.cancel
  /\ pc = "none"
  /\ fetched = <<>>
  /\ emitted = <<>>

\* the page the stream is meant to start at
NormalizedStart == IF oreq.PageNumber <= 0 THEN 1 ELSE oreq.PageNumber

LastFetch == fetched[Len(fetched)]

\* every fetch answered so far returned a page with items
AllNonEmpty ==
  \A i \in 1..Len(fetched) : fetched[i].result \in {"items", "inflight"}

NoErrEmitted == \A i \in 1..Len(emitted) : ~emitted[i].Err

\* page p is the page made from the outcome of fetch f
PageOf(p, f) ==
  IF f.result \in ErrResults THEN p.Err
  ELSE ~p.Err /\ p.Items = f.result

\* C1: ListPhotos(nil), SearchPhotos(nil) and CommentsForPhoto(nil) return a
\* non-nil error with a nil channel and a nil cancel function; no worker is
\* started and no fetch is ever issued.
C1_NilRequestRejected ==
  (call = "returned" /\ oreq.isNil) => Rejection

C1_Witness ==
  call = "returned" /\ oreq.isNil /\ kind = "search" /\ ret.err = "errNilPhotoSearch"

\* C2: ListPhotos with an empty Feature and CommentsForPhoto with an empty
\* PhotoID are rejected synchronously: error, nil channel, nil cancel, no
\* worker, no fetch.
C2_MissingFilterRejected ==
  (/\ call = "returned"
   /\ ~oreq.isNil
   /\ \/ (kind = "list" /\ oreq.Feature = "")
      \/ (kind = "comments" /\ oreq.PhotoID = ""))
  => Rejection

C2_Witness ==
  /\ call = "returned"
  /\ kind = "comments"
  /\ ~oreq.isNil
  /\ oreq.PhotoID = ""
  /\ ret.err = "errEmptyPhotoID"

\* C3: with MaxPageNumber = M > 0 and PageNumber unset, over a source whose
\* pages are all non-empty and a consumer that never cancels, every endpoint
\* issues exactly M fetches and emits exactly M pages; there is no
\* (M+1)-th fetch.
C3_ExactlyMaxPages ==
  (/\ call = "returned"
   /\ ret.err = "nil"
   /\ oreq.PageNumber = 0
   /\ oreq.MaxPageNumber > 0
   /\ AllNonEmpty
   /\ NoErrEmitted
   /\ pp # ErrPage)
  => /\ Len(fetched) <= oreq.MaxPageNumber
     /\ (pc = "done" /\ ~cancelChanClosed)
          => /\ Len(fetched) = oreq.MaxPageNumber
             /\ Len(emitted) = oreq.MaxPageNumber

\* C4: an unbounded ListPhotos stream whose page N is empty (pages before it
\* hold photos) emits N pages, the last one empty, issues no fetch for page
\* N+1, and closes the channel.
C4_ListStopsAtEmptyPage ==
  (/\ kind = "list"
   /\ ret.err = "nil"
   /\ oreq.MaxPageNumber = 0
   /\ \E i \in 1..Len(fetched) : fetched[i].result = "empty")
  => \A i \in 1..Len(fetched) :
       (/\ fetched[i].result = "empty"
        /\ \A j \in 1..(i - 1) : fetched[j].result = "items")
       => /\ i = Len(fetched)
          /\ Len(emitted) <= i

\* C5: an unbounded SearchPhotos stream over a source whose pages 1..N-1
\* hold photos and whose page N is empty emits exactly N pages, the last one
\* empty, fetches nothing after the empty page, and closes the channel.
C5_SearchEmitsNPages ==
  (/\ kind = "search"
   /\ ret.err = "nil"
   /\ oreq.MaxPageNumber = 0
   /\ oreq.PageNumber <= 1
   /\ pc = "done"
   /\ ~cancelChanClosed
   /\ fetched # <<>>
   /\ LastFetch.result = "empty"
   /\ LastFetch.page >= 1
   /\ \A i \in 1..(Len(fetched) - 1) : fetched[i].result = "items")
  => /\ Len(emitted) = LastFetch.page
     /\ emitted[Len(emitted)].Items = "empty"
     /\ closes = 1

\* C6: a CommentsForPhoto stream whose page N is empty (pages before it hold
\* comments) emits exactly N-1 pages: the empty page is fetched, never
\* emitted, nothing is fetched after it, and the channel is closed.
C6_CommentsStopSilently ==
  (/\ kind = "comments"
   /\ \E i \in 1..Len(fetched) : fetched[i].result = "empty")
  => /\ LastFetch.result = "empty"
     /\ \A i \in 1..(Len(fetched) - 1) : fetched[i].result = "items"
     /\ pc = "done"
     /\ closes = 1
     /\ Len(emitted) = Len(fetched) - 1
     /\ Len(emitted) = LastFetch.page - NormalizedStart
     /\ \A i \in 1..Len(emitted) : emitted[i].Items = "items" /\ ~emitted[i].Err

C6_Witness ==
  /\ kind = "comments"
  /\ oreq.PageNumber = 0
  /\ Len(fetched) = 3
  /\ LastFetch.result = "empty"
  /\ LastFetch.page = 3
  /\ Len(emitted) = 2
  /\ pc = "done"

\* C7: the cancel function is a one-shot latch: the first call fires the
\* token, the token never returns to unfired, and every later call (racing
\* with the worker or made after the stream ended) changes nothing and never
\* faults.
C7_OneShotLatch ==
  /\ []~panicked
  /\ [][cancelChanClosed => cancelChanClosed']_vars
  /\ [][(cancelCalls' # cancelCalls)
          => /\ cancelChanClosed'
             /\ cancelChanClosed
                  => UNCHANGED <<kind, call, oreq, ret, preq, maxPageNumber,
                                 photoID, pc, pp, fetched, emitted, closes,
                                 cancelChanClosed, cancelOnce, panicked,
                                 cancelPc, cancelFetches, cancelEmitted,
                                 callerReq, mutations, firstBody,
                                 waited>>]_vars

C7_Witness ==
  /\ cancelCalls >= 2
  /\ cancelChanClosed
  /\ cancelPc = "wait"
  /\ pc = "done"

\* the token fired while a fetch was in flight, or before the first fetch
CancelledInFlight ==
  /\ cancelChanClosed
  /\ \/ cancelPc = "fetch"
     \/ (cancelPc \in {"start", "loop"} /\ cancelFetches = 0)

FetchesAllowedAfterCancel ==
  IF cancelPc = "fetch" THEN cancelFetches ELSE cancelFetches + 1

\* the in-flight fetch has returned (or could not be built)
InFlightSettled ==
  /\ pc \notin {"start", "loop", "fetch"}

\* C8 as stated: a cancel during an in-flight fetch does not abort it: its
\* page is still emitted to a receiving consumer, is the last page emitted,
\* and no fetch for the following page is started.
C8_InFlightPageEmitted ==
  CancelledInFlight
  => /\ Len(fetched) <= FetchesAllowedAfterCancel
     /\ Len(emitted) <= cancelEmitted + 1
     /\ (InFlightSettled /\ Len(emitted) = cancelEmitted)
          => /\ pc \in {"send", "sendLast"}
             /\ fetched # <<>> => PageOf(pp, LastFetch)
     /\ pc = "done"
          => /\ Len(emitted) = cancelEmitted + 1
             /\ fetched # <<>> => PageOf(emitted[Len(emitted)], LastFetch)

\* the in-flight fetch of a comments stream returned a page without comments
SilentEnd ==
  /\ kind = "comments"
  /\ fetched # <<>>
  /\ LastFetch.result = "empty"

\* C8 amended: the same, except that a comments stream whose in-flight fetch
\* returns a page without comments ends without emitting that page.
C8_InFlightPageEmittedUnlessSilent ==
  CancelledInFlight
  => /\ Len(fetched) <= FetchesAllowedAfterCancel
     /\ Len(emitted) <= cancelEmitted + 1
     /\ (InFlightSettled /\ Len(emitted) = cancelEmitted)
          => IF SilentEnd
               THEN pc = "done"
               ELSE /\ pc \in {"send", "sendLast"}
                    /\ fetched # <<>> => PageOf(pp, LastFetch)
     /\ pc = "done"
          => IF SilentEnd
               THEN Len(emitted) = cancelEmitted
               ELSE /\ Len(emitted) = cancelEmitted + 1
                    /\ fetched # <<>> => PageOf(emitted[Len(emitted)], LastFetch)

C8_Witness ==
  /\ cancelChanClosed
  /\ cancelPc = "fetch"
  /\ cancelFetches = 2
  /\ pc = "done"
  /\ Len(fetched) = 2
  /\ Len(emitted) = 2
  /\ emitted[2].Items = "items"

\* C9: a fetch that fails at the transport or in decoding makes the worker
\* emit exactly one page with Err set; that page is the last one, the
\* channel is then closed, nothing is fetched afterwards (no retry), and
\* every page before it has a nil Err.
C9_ErrorPageIsTerminal ==
  /\ \A i \in 1..Len(emitted) : emitted[i].Err => i = Len(emitted)
  /\ (emitted # <<>> /\ emitted[Len(emitted)].Err) => (pc = "done" /\ closes = 1)
  /\ \A i \in 1..Len(fetched) :
       fetched[i].result \in ErrResults
         => /\ i = Len(fetched)
            /\ pc \in {"sendLast", "done"}
            /\ pc = "sendLast" => (pp.Err /\ NoErrEmitted)
            /\ pc = "done" => (emitted # <<>> /\ emitted[Len(emitted)].Err)

C9_Witness ==
  /\ kind = "list"
  /\ pc = "done"
  /\ Len(fetched) = 2
  /\ fetched[2].result = "decodeErr"
  /\ Len(emitted) = 2
  /\ emitted[2].Err
  /\ ~emitted[1].Err

\* C10: for every endpoint a request with PageNumber <= 0 has its first
\* fetch issued for page 1.
C10_FirstFetchIsPageOne ==
  (fetched # <<>> /\ oreq.PageNumber <= 0) => fetched[1].page = 1

\* C11: adjustPaginationParams of PhotoRequest and of PhotoSearch maps
\* LimitPerPage <= 0 to 20, >= 100 to 100, leaves 1..99 alone, and changes
\* no field other than PageNumber and LimitPerPage.
C11_LimitClamped ==
  fn \in {"PhotoRequest.adjustPaginationParams",
          "PhotoSearch.adjustPaginationParams"}
  => /\ fout.LimitPerPage = IF fin.LimitPerPage <= 0 THEN 20
                            ELSE IF fin.LimitPerPage >= 100 THEN 100
                            ELSE fin.LimitPerPage
     /\ [fout EXCEPT !.PageNumber = fin.PageNumber,
                     !.LimitPerPage = fin.LimitPerPage] = fin

C11_Witness ==
  /\ fn = "PhotoSearch.adjustPaginationParams"
  /\ fin.LimitPerPage = 0
  /\ fin.PageNumber = 0
  /\ fout.LimitPerPage = 20
  /\ fout.PageNumber = 1

\* C12: every fetch of a ListPhotos or SearchPhotos stream sends an
\* items-per-page value within 1..100, whatever LimitPerPage the caller gave.
C12_LimitSentWithinRange ==
  kind \in {"list", "search"}
  => \A i \in 1..Len(fetched) : fetched[i].rpp >= 1 /\ fetched[i].rpp <= 100

\* the PageNumber fields of the emitted pages without Err, in emission order
RECURSIVE OkPageNumbers(_)
OkPageNumbers(pages) ==
  IF pages = <<>> THEN <<>>
  ELSE IF Head(pages).Err THEN OkPageNumbers(Tail(pages))
  ELSE <<Head(pages).PageNumber>> \o OkPageNumbers(Tail(pages))

\* C13: within one invocation the PageNumber fields of the emitted non-error
\* pages increase by exactly 1 from one page to the next.
C13_PageNumbersConsecutive ==
  LET ns == OkPageNumbers(emitted)
  IN \A i \in 1..(Len(ns) - 1) : ns[i + 1] = ns[i] + 1

\* C14: every decoded page a stream emits, a final empty page included,
\* carries in PageNumber the page number of the fetch that produced it,
\* whatever the response carried.
C14_PageNumberStamped ==
  \A i \in 1..Len(emitted) :
    ~emitted[i].Err => emitted[i].PageNumber = fetched[i].page

\* C15: whenever the worker terminates the page channel is closed exactly
\* once, and no page is emitted after the close.
C15_ClosedOnceOnTermination ==
  /\ [](closes <= 1 /\ (pc = "done" <=> closes = 1))
  /\ [][closes >= 1 => emitted' = emitted]_vars

C15_Witness ==
  /\ pc = "done"
  /\ closes = 1
  /\ cancelPc = "wait"
  /\ Len(emitted) = 2

\* C16: backpressure: the fetch for the next page starts only when every page
\* fetched so far has been accepted by the consumer; a worker whose page has
\* not been received issues no fetch.
C16_Backpressure ==
  /\ [](Len(fetched) <= Len(emitted) + 1)
  /\ [][Len(fetched') > Len(fetched)
          => (Len(emitted) = Len(fetched) /\ pc \notin {"send", "sendLast"})]_vars

C16_Witness ==
  /\ kind = "comments"
  /\ pc = "fetch"
  /\ Len(fetched) = 3
  /\ Len(emitted) = 2

\* the page the worker starts at and the items-per-page it sends, as fixed
\* by the request at the time of the call
StartPageAtCall == IF kind = "search" THEN oreq.PageNumber ELSE NormalizedStart

LimitAtCall ==
  IF kind = "comments" THEN 0
  ELSE IF kind = "search" THEN oreq.LimitPerPage
  ELSE PhotoRequestAdjustPaginationParams(oreq).LimitPerPage

BoundAtCallReached ==
  oreq.MaxPageNumber > 0 /\ preq.PageNumber >= oreq.MaxPageNumber

\* C17: what the caller writes to PageNumber, LimitPerPage or MaxPageNumber
\* of its request object after the call has returned changes neither the
\* pages fetched, nor the items-per-page sent, nor the page the stream stops
\* at: all three are fixed by the request as it was at the call.
C17_SnapshotAtCallTime ==
  /\ [](\A i \in 1..Len(fetched) :
          /\ fetched[i].page = StartPageAtCall + i - 1
          /\ fetched[i].rpp = LimitAtCall)
  /\ [][(pc = "wait" /\ pc' = "done" /\ ~cancelChanClosed)
          => BoundAtCallReached]_vars
  /\ [][(pc = "wait" /\ pc' = "loop") => ~BoundAtCallReached]_vars

C17_Witness ==
  /\ kind = "list"
  /\ mutations = 1
  /\ oreq.MaxPageNumber = 2
  /\ callerReq.MaxPageNumber = 3
  /\ cancelPc = "none"
  /\ Len(fetched) = 2
  /\ Len(emitted) = 2
  /\ pc = "done"

\* the first fetch returned a page with items and the consumer received it
FirstPageReceived ==
  /\ fetched # <<>>
  /\ fetched[1].result = "items"
  /\ emitted # <<>>

\* C18 as stated: the first page received equals in every field, PageNumber
\* included, the page obtained by decoding the first response body into a
\* fresh page.
C18_FirstPageIsDecodedBody ==
  FirstPageReceived => emitted[1] = firstBody

\* C18 amended: it equals that page in every field but PageNumber; PageNumber
\* is the decoded one for comments, and the requested page number for list
\* and search.
C18_FirstPageIsDecodedBodyStamped ==
  FirstPageReceived
  => emitted[1] = [firstBody EXCEPT !.PageNumber =
                     IF kind = "comments" THEN firstBody.PageNumber
                     ELSE fetched[1].page]

C18_Witness ==
  /\ kind = "search"
  /\ FirstPageReceived
  /\ firstBody.PageNumber = 0
  /\ fetched[1].page = 1
  /\ emitted[1].PageNumber = 1
  /\ emitted[1].Items = "items"

\* the response has a status outside the success range
NonSuccess(res) == ~res.rtErr /\ ~StatusOK(res.StatusCode)

\* for a non-success status: nil bytes, and the body as the message if one
\* was read, otherwise the status line
NonSuccessResult(res, out) ==
  /\ out.bytesNil
  /\ ~out.err.isNil
  /\ out.err.msg = IF BodyRead(res) # "" THEN BodyRead(res) ELSE "status line"

\* C19 as stated: doAuthAndRequest returns an error exactly when the round
\* trip fails or the status is outside the success range; for a non-success
\* status the bytes are nil and the message is the body if non-empty, else
\* the status line.
C19_ErrorIffTransportOrStatus ==
  fn = "doAuthAndRequest"
  => /\ ~fout.err.isNil <=> (fin.rtErr \/ ~StatusOK(fin.StatusCode))
     /\ NonSuccess(fin) => NonSuccessResult(fin, fout)

\* reading the body of a success response ended in an error
ReadFailed(res) ==
  ~res.rtErr /\ StatusOK(res.StatusCode) /\ ~res.bodyNil /\ res.readErr

\* C19 amended: it returns an error exactly when the round trip fails, the
\* status is outside the success range, or reading the body of a success
\* response fails; the rest as stated.
C19_ErrorIffTransportStatusOrRead ==
  fn = "doAuthAndRequest"
  => /\ ~fout.err.isNil
          <=> (fin.rtErr \/ ~StatusOK(fin.StatusCode) \/ ReadFailed(fin))
     /\ NonSuccess(fin) => NonSuccessResult(fin, fout)

C19_Witness ==
  /\ fn = "doAuthAndRequest"
  /\ ~fin.rtErr
  /\ fin.StatusCode = 401
  /\ ~fin.bodyNil
  /\ fin.body = "Unauthorized consumer_key"
  /\ fout.bytesNil
  /\ fout.err.msg = "Unauthorized consumer_key"

\* the transport reports a failure for the request
TransportFails(res) == res.rtErr \/ ~StatusOK(res.StatusCode) \/ ReadFailed(res)

\* C20: PhotoByID returns a nil photo and an error for an empty photo ID,
\* without a transport request, and when the transport reports a failure; it
\* returns a photo with a nil error only when the single request succeeded
\* and its body decoded.
C20_PhotoByIDErrors ==
  fn = "PhotoByID"
  => /\ fin.photoID = ""
          => (fout.photo = "nil" /\ ~fout.err.isNil /\ fout.requests = 0)
     /\ TransportFails(fin.res)
          => (fout.photo = "nil" /\ ~fout.err.isNil)
     /\ (fout.photo # "nil" /\ fout.err.isNil)
          => /\ fout.requests = 1
             /\ ~TransportFails(fin.res)
             /\ fin.body = "photo"
             /\ BodyRead(fin.res) # ""
     /\ fout.photo # "nil" => fout.err.isNil

C20_Witness ==
  /\ fn = "PhotoByID"
  /\ fin.photoID = ""
  /\ ~fin.res.rtErr
  /\ fin.res.StatusCode = 200
  /\ fin.body = "photo"
  /\ fout.photo = "nil"
  /\ fout.err.msg = "errEmptyPhotoID"

\* ------------------------------------------------------------ upload
\* C21: UploadPhoto with a nil request, a nil Body or a nil PhotoInfo returns
\* a nil photo and a non-nil error, makes no transport request and does not
\* start the goroutine that writes the multipart body.
C21_UploadRejectsNilParts ==
  (fn = "UploadPhoto"
     /\ (fin.ureq.isNil \/ fin.ureq.bodyNil \/ fin.ureq.infoNil))
    => /\ fout.photo = "nil"
       /\ ~fout.err.isNil
       /\ fout.requests = 0
       /\ ~fout.writerStarted

C21_Witness ==
  /\ fn = "UploadPhoto"
  /\ ~fin.ureq.isNil
  /\ ~fin.ureq.bodyNil
  /\ fin.ureq.infoNil
  /\ fin.qvOk
  /\ ~fin.res.rtErr
  /\ StatusOK(fin.res.StatusCode)
  /\ fout.err.msg = "errNilPhoto"

\* ------------------------------------------------- hand-off and the wait
\* the steps the worker can take without the consumer and without the caller
WorkerAlone ==
  \/ WorkerStart
  \/ IssueFetch
  \/ FetchReturn
  \/ WaitCancelled
  \/ Tick
  \/ ThrottleElapsed

\* C22: a hand-off ends when the consumer accepts the page or when
\* cancellation fires: a worker that waits to hand off a page after the token
\* has fired can go on to its termination without the consumer.
C22_HandOffEndsOnCancel ==
  (pc \in {"send", "sendLast"} /\ cancelChanClosed) => ENABLED WorkerAlone

\* C23: in the wait after a hand-off, a token that has fired ends the worker
\* at once: the only step it takes from the wait is its termination with the
\* close of the channel, with no fetch and no page (no error page either)
\* after the moment the token fired.
C23_CancelEndsWait ==
  /\ [](cancelPc = "wait"
          => /\ pc \in {"wait", "done"}
             /\ Len(fetched) = cancelFetches
             /\ Len(emitted) = cancelEmitted)
  /\ [][(pc = "wait" /\ cancelChanClosed /\ pc' # "wait")
          => /\ pc' = "done"
             /\ closes' = closes + 1
             /\ fetched' = fetched
             /\ emitted' = emitted]_vars

C23_Witness ==
  /\ cancelPc = "wait"
  /\ pc = "done"
  /\ closes = 1
  /\ Len(emitted) = 1
  /\ cancelCalls = 1

\* the bound of the request at call time is set and the page reaches it
AtBound(page) == oreq.MaxPageNumber > 0 /\ page >= oreq.MaxPageNumber

\* C24: when MaxPageNumber > 0 and the page just handed off has a number
\* >= MaxPageNumber, no further fetch is made; the bound is looked at only
\* after the hand-off and the wait: a fetched page at the bound is still
\* handed off and waited on, and the worker ends anywhere else only after an
\* error page, an empty page or a cancellation.
C24_BoundEndsStream ==
  /\ [](\A i \in 1..Len(fetched) : AtBound(fetched[i].page) => i = Len(fetched))
  /\ [][(pc = "wait" /\ pc' = "loop") => ~AtBound(LastFetch.page)]_vars
  /\ [][(pc = "fetch" /\ pc' # "fetch" /\ fetched'[Len(fetched)].result = "items")
          => pc' = "send"]_vars
  /\ [][(pc = "send" /\ pc' # "send")
          => pc' = "wait" /\ Len(emitted') = Len(emitted) + 1]_vars
  /\ [][(pc = "wait" /\ pc' = "done" /\ ~cancelChanClosed)
          => AtBound(LastFetch.page) /\ waited >= throttle]_vars

C24_Witness ==
  /\ oreq.MaxPageNumber = 2
  /\ pc = "done"
  /\ ~cancelChanClosed
  /\ Len(fetched) = 2
  /\ Len(emitted) = 2
  /\ LastFetch.result = "items"
  /\ LastFetch.page = 2

\* C25: the page numbers asked of the transport are consecutive: every fetch
\* after the first asks for the previous page number plus 1, and no page
\* number is asked for twice, whatever the earlier fetches returned.
C25_FetchesConsecutive ==
  /\ \A i \in 2..Len(fetched) : fetched[i].page = fetched[i - 1].page + 1
  /\ \A i, j \in 1..Len(fetched) : i # j => fetched[i].page # fetched[j].page

C25_Witness ==
  /\ Len(fetched) = 3
  /\ fetched[2].result = "empty"
  /\ fetched[3].page = fetched[1].page + 2

\* the fetches that have been issued and have not returned
InFlight == {i \in 1..Len(fetched) : fetched[i].result = "inflight"}

\* C26: an invocation that returned a stream has one worker, and at most one
\* fetch of it is in flight at any moment: a fetch is issued only when every
\* earlier one has returned.
C26_OneFetchInFlight ==
  /\ Cardinality(InFlight) <= 1
  /\ InFlight # {} <=> pc = "fetch"
  /\ InFlight \subseteq {Len(fetched)}
  /\ ret.chan <=> pc # "none"

C26_Witness ==
  /\ kind = "list"
  /\ pc = "fetch"
  /\ Len(fetched) = 3
  /\ InFlight = {3}

\* the throttle interval of each endpoint, in milliseconds
RequiredThrottle == IF kind = "comments" THEN 200 ELSE 150

\* C27: the fetch of page k+1 starts only after the throttle interval that
\* began when page k was handed off has fully elapsed (150ms for list and
\* search, 200ms for comments); no fetch is in flight during the interval.
C27_ThrottleBeforeNextFetch ==
  /\ [][(pc = "wait" /\ pc' = "loop") => waited >= RequiredThrottle]_vars
  /\ [][(pc # "wait" /\ pc' = "wait")
          => waited' = 0 /\ Len(emitted') = Len(emitted) + 1]_vars
  /\ [][(pc # "loop" /\ pc' = "loop") => pc \in {"start", "wait"}]_vars
  /\ [][Len(fetched') > Len(fetched) => pc = "loop"]_vars
  /\ [](pc = "wait" => InFlight = {})

C27_Witness ==
  /\ kind = "comments"
  /\ Len(fetched) = 2
  /\ pc = "fetch"
  /\ Len(emitted) = 1

\* C28: the worker reads nothing of the caller's request object after the
\* call has returned: the photo ID of every fetch of a comments stream is
\* the PhotoID the request held when CommentsForPhoto was called.
C28_PhotoIDAtCallTime ==
  (kind = "comments" /\ Len(fetched) > 0) => photoID = oreq.PhotoID

\* C29: every read of the transport and of the consumer key made for a fetch
\* holds the read lock, every write of SetHTTPRoundTripper holds the write
\* lock, no read sees the transport while it is being written, and a reader
\* and the writer are never inside their critical sections together.
C29_LockDiscipline ==
  /\ \A r \in reads : r.rlocked /\ ~r.writerInside /\ ~r.torn
  /\ \A x \in writes : x.wlocked /\ ~x.readersInside
  /\ ~(rwWriter /\ rwReaders # {})
  /\ ~(setPc # "idle" /\ ReadersInside # {})
  /\ \A w \in Workers : gotRt[w] >= 0

C29_Witness ==
  /\ setPc = "writing"
  /\ sets = 1
  /\ \E w \in Workers : lpc[w] = "built" /\ lfetches[w] = 1 /\ gotRt[w] = 1
  /\ \E r \in reads : r.field = "rt"
  /\ \E r \in reads : r.field = "_consumerKey"

\* --------------------------------------------- key, caller's object, cancel
\* C31: every request handed to the transport carries the client's consumer
\* key as its consumer_key parameter, and the key is read from the client for
\* each fetch: a worker holds no key between two fetches and holds the
\* client's key from the read of a fetch to its request.
C31_ConsumerKeySent ==
  /\ \A w \in Workers : \A i \in 1..Len(sent[w]) :
       sent[w][i].consumer_key = clientKey
  /\ \A w \in Workers :
       /\ lpc[w] \in {"idle", "key.rlocked"} => gotKey[w] = ""
       /\ lpc[w] \in {"key.read", "built", "rt.rlocked", "rt.read", "do"}
            => gotKey[w] = clientKey

C31_Witness ==
  /\ clientKey = "consumer-key-2"
  /\ \E w \in Workers :
       /\ Len(sent[w]) = 2
       /\ sent[w][2].consumer_key = "consumer-key-2"
       /\ lpc[w] = "idle"

\* C32: the calls and the worker never write to the request object the
\* caller passed in: until the caller writes to it, it is what the caller
\* gave, whatever the worker normalised or advanced in its copy, and it
\* changes only by a write of the caller.
C32_CallerRequestUntouched ==
  /\ []((call = "returned" /\ mutations = 0) => callerReq = oreq)
  /\ [][(call = "returned" /\ callerReq' # callerReq)
          => mutations' = mutations + 1]_vars

C32_Witness ==
  /\ kind = "list"
  /\ oreq.PageNumber = 0
  /\ oreq.LimitPerPage = 150
  /\ preq.PageNumber = 2
  /\ preq.LimitPerPage = 100
  /\ Len(emitted) = 2
  /\ mutations = 0
  /\ callerReq = oreq

\* C33: after the token has fired, at most one further fetch is started and
\* at most one further page is received, wherever the worker was when it
\* fired.
C33_AtMostOneMoreAfterCancel ==
  cancelChanClosed
    => (Len(fetched) <= cancelFetches + 1 /\ Len(emitted) <= cancelEmitted + 1)

C33_Witness ==
  /\ cancelPc = "loop"
  /\ cancelFetches = 1
  /\ Len(fetched) = 2
  /\ cancelEmitted = 1
  /\ Len(emitted) = 2
  /\ pc = "done"

\* C36: the transport is read from the client for each fetch: a request uses
\* a transport at least as new as the last SetHTTPRoundTripper call that had
\* returned when its fetch began, and none installed by a call that had not
\* begun when the request was made.
C36_TransportAtFetchTime ==
  \A w \in Workers : \A i \in 1..Len(sent[w]) :
    /\ sent[w][i].setsDone <= sent[w][i].rt
    /\ sent[w][i].rt <= sent[w][i].setsBegun

C36_Witness ==
  \E w \in Workers :
    /\ Len(sent[w]) = 2
    /\ sent[w][1].rt = 0
    /\ sent[w][1].setsBegun = 0
    /\ sent[w][2].rt = 1
    /\ sent[w][2].setsDone = 1

\* the model's budget of fetches is used up and the worker is at the top of
\* its loop: the model, not the program, stops here
FetchBudgetSpent == pc = "loop" /\ Len(fetched) >= MaxFetches

\* C34: with every started fetch returning and a consumer that keeps
\* receiving, once cancel has been invoked the worker eventually terminates
\* and the channel is eventually closed.
C34_CancelLeadsToClose ==
  (cancelChanClosed /\ ~FetchBudgetSpent) ~> (pc = "done" /\ closes = 1)

C34_Witness ==
  /\ cancelPc = "start"
  /\ pc = "done"
  /\ closes = 1
  /\ Len(emitted) = 1
  /\ Len(fetched) = 1

\* ------------------------------------------- a start page above the bound
\* a stream was started with a bound and a starting page above it
StartAboveBound ==
  /\ ret.chan
  /\ oreq.MaxPageNumber > 0
  /\ StartPageAtCall > oreq.MaxPageNumber

Stamped(p) ==
  /\ ~p.Err
  /\ \/ kind = "list"
     \/ kind = "search" /\ p.Items = "items"

C37_SniffedContentTypeWritten ==
  (/\ fn = "UploadPhoto.writer"
   /\ TrimSpace(fin.ContentType) = ""
   /\ fin.Body.seekable
   /\ fin.Body.type # ""
   /\ fin.Body.pos = 0
   /\ fin.Body.len >= fin.Body.sigLen)
    => fout.ContentTypeField = fin.Body.type

\* C38: for a seekable reader of at least one byte, the reader's position
\* after fDetectContentType is its position before the call.
C38_PositionRestored ==
  (/\ fn = "fDetectContentType"
   /\ ~fin.r.isNil
   /\ fin.r.seekable
   /\ fin.r.len >= 1)
    => fout.pos = fin.r.pos

NamedCategories == DOMAIN categoryToIntMap

\* C39: the category tables are mutually inverse: the 28 named categories
\* have the codes 0..27, no code twice, intToCategory(categoryToInt(c)) = c
\* for every named category c and categoryToInt(intToCategory(i)) = i for
\* every code i in 0..27.
C39_CategoryTablesInverse ==
  /\ Cardinality(NamedCategories) = 28
  /\ {categoryToIntMap[c] : c \in NamedCategories} = 0..27
  /\ \A c, d \in NamedCategories :
       c # d => categoryToIntMap[c] # categoryToIntMap[d]
  /\ (fn = "categoryToInt" /\ fin \in NamedCategories)
       => (fout.code \in 0..27 /\ fout.back = fin)
  /\ (fn = "intToCategory" /\ fin \in 0..27)
       => (fout.cat \in NamedCategories /\ fout.back = fin)

C39_Witness ==
  /\ fn = "intToCategory"
  /\ fin = 27
  /\ fout.cat = "Urban Exploration"
  /\ fout.back = 27

====
